---- MODULE Spec2Model ----
(***************************************************************************)
(* Model of the elpris-se4 scripts: tibber_to_json.py (price rows and a    *)
(* simple consumption sum), tibber_stats.py (windowed consumption sums)    *)
(* and tibber_data_debug.py (Data API probe).                              *)
(*                                                                         *)
(* Time is counted in quarter-hours.  An ISO-8601 timestamp string of the  *)
(* fixed-width form YYYY-MM-DDTHH:MM:SS<suffix> is the record              *)
(* [loc, suf]: loc is the written wall-clock time, suf the written offset  *)
(* suffix.  Strings of that form compare first by loc, then by suffix.     *)
(***************************************************************************)
EXTENDS Integers, Sequences, FiniteSets, TLC

\* ------------------------------------------------------------------ bounds
MaxLen == 3
MaxLoc == 2
MaxNodes == 2
MaxLimit == 2

\* --------------------------------------------------------------- constants
Hour == 4

VARIABLES
    prices,        \* build_price_rows: the argument
    rowsState,     \* build_price_rows: "pending", "returned" or "raised"
    rows,          \* build_price_rows: the returned list
    nodes,         \* sum_nodes / aggregate_consumption: the argument
    limit,         \* sum_nodes: limit (-1 stands for None)
    filter_month,  \* sum_nodes: filter_month (<<0, 0>> stands for None)
    sumState,      \* sum_nodes: "pending", "returned" or "raised"
    sumResult,     \* sum_nodes: the returned dict
    aggState,      \* aggregate_consumption: "pending", "returned", "raised"
    aggResult,     \* aggregate_consumption: the returned pair
    script,        \* which script the interpreter was started on
    env,           \* the environment variables of the run
    resp,          \* the last answer of the remote API
    pc,            \* position of the run; it ends in "exit" (sys.exit), "raised"
                   \* (uncaught exception) or "end" (main returned)
    exitCode,      \* exit status of the process (-1 while running)
    netCalls,      \* number of HTTP requests issued so far
    files          \* data/*.json: "untouched", "opened" (created or truncated,
                   \* nothing written) or "written"

vars == <<prices, rowsState, rows, nodes, limit, filter_month, sumState,
          sumResult, aggState, aggResult, script, env, resp, pc, exitCode,
          netCalls, files>>

rowVars == <<prices, rowsState, rows>>
sumVars == <<nodes, limit, filter_month, sumState, sumResult, aggState, aggResult>>
runVars == <<script, env, resp, pc, exitCode, netCalls, files>>

\* ------------------------------------------------------------ number helpers
\* A JSON value that float() is applied to: a number, null, or something
\* float() rejects (a non-numeric string such as "abc").
Num(v) == [k |-> "num", v |-> v]
None == [k |-> "none", v |-> 0]
Bad == [k |-> "bad", v |-> 0]

\* round(x, n): x is counted in units of 10^-(n+1); the result is the nearest
\* multiple of 10 units, a tie going to the even multiple.  (A binary float
\* that prints as a tie lies on one side of it; the values used below never
\* sum to a tie.)
round(x) ==
    LET lo == (x \div 10) * 10
        r == x - lo
    IN  IF r < 5 THEN lo
        ELSE IF r > 5 THEN lo + 10
        ELSE IF (lo \div 10) % 2 = 0 THEN lo ELSE lo + 10

\* Sum of f over a finite set of indices.
RECURSIVE SumOver(_, _)
SumOver(S, f) ==
    IF S = {} THEN 0
    ELSE LET i == CHOOSE j \in S : TRUE IN f[i] + SumOver(S \ {i}, f)

\* -------------------------------------------------------------- timestamps
Suffixes == {"Z", "+01:00", "-01:00"}

\* Position of a suffix in string order: '+' (43) < '-' (45) < 'Z' (90).
SufRank(suf) ==
    CASE suf = "+00:00" -> 0
      [] suf = "+01:00" -> 1
      [] suf = "-01:00" -> 2
      [] suf = "Z" -> 3

\* String comparison a < b of two timestamp strings.
StrLess(a, b) ==
    \/ a.loc < b.loc
    \/ a.loc = b.loc /\ SufRank(a.suf) < SufRank(b.suf)

\* UTC offset, in quarter-hours, that a numeric suffix denotes.
SufOffset(suf) ==
    CASE suf = "+00:00" -> 0
      [] suf = "+01:00" -> Hour
      [] suf = "-01:00" -> 0 - Hour

\* str.replace("Z", "+00:00")
ReplaceZ(s) == [loc |-> s.loc, suf |-> IF s.suf = "Z" THEN "+00:00" ELSE s.suf]

\* datetime.fromisoformat on a string with a numeric offset: an aware datetime,
\* wall-clock time loc in the zone off.
fromisoformat(s) == [loc |-> s.loc, off |-> SufOffset(s.suf)]

parse_iso(s) == fromisoformat(ReplaceZ(s))

\* The instant (UTC) an aware datetime denotes.
Instant(d) == d.loc - d.off

\* aware datetime - aware datetime: a timedelta, the difference of the instants.
DtSub(a, b) == Instant(a) - Instant(b)

\* aware datetime + timedelta: same zone, wall clock moved.
DtAdd(d, delta) == [loc |-> d.loc + delta, off |-> d.off]

\* datetime.isoformat() of an aware datetime.
isoformat(d) ==
    [loc |-> d.loc,
     suf |-> CASE d.off = 0 -> "+00:00"
               [] d.off = Hour -> "+01:00"
               [] d.off = 0 - Hour -> "-01:00"]

\* ---------------------------------------------------------- build_price_rows
PriceKeyLess(p, q) == StrLess(p.startsAt, q.startsAt)

\* sorted(prices, key=...): stable and ascending.  Rank(i) is the number of
\* elements that end up before element i.
SortedPrices(ps) ==
    LET n == Len(ps)
        Before(j, i) == \/ PriceKeyLess(ps[j], ps[i])
                        \/ ~PriceKeyLess(ps[i], ps[j]) /\ j < i
        Rank(i) == Cardinality({j \in 1..n : Before(j, i)})
    IN  [k \in 1..n |-> ps[CHOOSE i \in 1..n : Rank(i) = k - 1]]

\* float(p["total"]) raises for null and for a non-numeric string.
PriceRaises(ps) == \E i \in 1..Len(ps) : ps[i].total.k # "num"

\* Variant: the end of every row is its start plus the inferred delta.
build_price_rows_delta_everywhere(ps_in) ==
    IF ps_in = <<>> THEN <<>>
    ELSE
        LET ps == SortedPrices(ps_in)
            n == Len(ps)
            starts == [i \in 1..n |-> parse_iso(ps[i].startsAt)]
            delta == IF n >= 2 THEN DtSub(starts[n], starts[n - 1]) ELSE Hour
        IN  [i \in 1..n |->
                [SEK_per_kWh |-> round(ps[i].total.v),
                 time_start |-> isoformat(starts[i]),
                 time_end |-> isoformat(DtAdd(starts[i], delta))]]

\* Variant: the last row always lasts one hour.
build_price_rows_hour_last(ps_in) ==
    IF ps_in = <<>> THEN <<>>
    ELSE
        LET ps == SortedPrices(ps_in)
            n == Len(ps)
            starts == [i \in 1..n |-> parse_iso(ps[i].startsAt)]
            end_dt(i) == IF i < n THEN starts[i + 1] ELSE DtAdd(starts[i], Hour)
        IN  [i \in 1..n |->
                [SEK_per_kWh |-> round(ps[i].total.v),
                 time_start |-> isoformat(starts[i]),
                 time_end |-> isoformat(end_dt(i))]]

build_price_rows(ps_in) ==
    IF ps_in = <<>> THEN <<>>
    ELSE
        LET ps == SortedPrices(ps_in)
            n == Len(ps)
            starts == [i \in 1..n |-> parse_iso(ps[i].startsAt)]
            delta == IF n >= 2 THEN DtSub(starts[n], starts[n - 1]) ELSE Hour
            end_dt(i) == IF i < n THEN starts[i + 1] ELSE DtAdd(starts[i], delta)
        IN  [i \in 1..n |->
                [SEK_per_kWh |-> round(ps[i].total.v),
                 time_start |-> isoformat(starts[i]),
                 time_end |-> isoformat(end_dt(i))]]

\* The price samples of the data model: a timestamp and a numeric total (in
\* units of 10^-6 SEK).
Timestamps == [loc : 0..MaxLoc, suf : Suffixes]
Totals == {Num(1234564)}
PriceSamples == [startsAt : Timestamps, total : Totals]

RECURSIVE SeqsUpTo(_, _)
SeqsUpTo(S, n) ==
    IF n = 0 THEN {<<>>}
    ELSE LET shorter == SeqsUpTo(S, n - 1)
         IN  shorter \cup {Append(s, x) : s \in {t \in shorter : Len(t) = n - 1}, x \in S}

CallBuildPriceRows ==
    /\ rowsState = "pending"
    /\ IF PriceRaises(prices)
       THEN rowsState' = "raised" /\ rows' = <<>>
       ELSE rowsState' = "returned" /\ rows' = build_price_rows(prices)
    /\ UNCHANGED <<prices, sumVars, runVars>>

\* ------------------------------------------------- claims: build_price_rows
\* The instant a row's time_start / time_end string denotes.
RowInstant(s) == Instant(fromisoformat(s))

RowDuration(r) == RowInstant(r.time_end) - RowInstant(r.time_start)

\* C1: every row returned by build_price_rows has time_start strictly before
\* time_end, for every input list, samples sharing a startsAt included.
C1_StartBeforeEnd ==
    rowsState = "returned" =>
        \A i \in 1..Len(rows) : RowInstant(rows[i].time_start) < RowInstant(rows[i].time_end)

\* C2: build_price_rows returns one row per input sample (none for the empty
\* list), and every row but the last ends where the next row starts.
C2_LengthAndContiguity ==
    rowsState = "returned" =>
        /\ Len(rows) = Len(prices)
        /\ \A i \in 1..(Len(rows) - 1) : rows[i].time_end = rows[i + 1].time_start

C2_Witness ==
    /\ rowsState = "returned"
    /\ Len(rows) = 3
    /\ RowDuration(rows[1]) # RowDuration(rows[2])
    /\ rows[1].time_start.suf # rows[2].time_start.suf

\* C3: the last row lasts as long as the gap between the last two samples of
\* the sorted list when there are at least two samples, and exactly one hour
\* when there is one sample.
C3_LastRowDuration ==
    (rowsState = "returned" /\ Len(rows) >= 1) =>
        LET ps == SortedPrices(prices)
            n == Len(ps)
            gap == Instant(parse_iso(ps[n].startsAt)) - Instant(parse_iso(ps[n - 1].startsAt))
        IN  RowDuration(rows[Len(rows)]) = IF n >= 2 THEN gap ELSE Hour

\* Samples at T, T+15min, T+30min: the last row spans 15 minutes, not an hour.
C3_Witness ==
    /\ rowsState = "returned"
    /\ Len(rows) = 3
    /\ \A i \in 1..3 : prices[i].startsAt = [loc |-> i - 1, suf |-> "Z"]
    /\ RowDuration(rows[3]) = 1

\* C8: whatever the input order and the UTC offsets the timestamps are written
\* with, the rows come out in ascending order of the instant of startsAt.
C8_RowsAscendingByInstant ==
    rowsState = "returned" =>
        \A i \in 1..Len(rows) : \A j \in 1..Len(rows) :
            i < j => RowInstant(rows[i].time_start) <= RowInstant(rows[j].time_start)

IdleSum ==
    /\ nodes = <<>> /\ limit = -1 /\ filter_month = <<0, 0>>
    /\ sumState = "idle" /\ sumResult = [kwh |-> 0, cost |-> 0, currency |-> "None"]
    /\ aggState = "idle" /\ aggResult = <<0, 0>>

IdleRun ==
    /\ script = "none"
    /\ env = [TIBBER_TOKEN |-> "", TIBBER_DATA_TOKEN |-> "", TIBBER_HOME_ID |-> ""]
    /\ resp = [status |-> 0] /\ pc = "idle" /\ exitCode = -1
    /\ netCalls = 0 /\ files = [today |-> "untouched", tomorrow |-> "untouched", stats |-> "untouched"]

IdleRows == prices = <<>> /\ rowsState = "idle" /\ rows = <<>>

InitRows ==
    /\ prices \in SeqsUpTo(PriceSamples, MaxLen)
    /\ rowsState = "pending" /\ rows = <<>>
    /\ IdleSum /\ IdleRun

NextRows == CallBuildPriceRows

SpecRows == InitRows /\ [][NextRows]_vars

\* ------------------------------------------------- consumption nodes, sorting
\* A node's "from" is missing/null, or a timestamp string; only its calendar
\* date (year, month, day) as written in the string matters to the code.
NoFrom == [k |-> "none", y |-> 0, m |-> 0, d |-> 0]
From(y, m, d) == [k |-> "ts", y |-> y, m |-> m, d |-> d]

\* Order of the sort keys  n.get("from") or "" : the empty string is lowest,
\* two timestamp strings compare by their date fields, most significant first.
FromKeyLess(a, b) ==
    \/ a.k = "none" /\ b.k = "ts"
    \/ /\ a.k = "ts" /\ b.k = "ts"
       /\ \/ a.y < b.y
          \/ a.y = b.y /\ a.m < b.m
          \/ a.y = b.y /\ a.m = b.m /\ a.d < b.d

NodeKeyLess(n1, n2) == FromKeyLess(n1.from, n2.from)

\* sorted(nodes, key=...): stable and ascending.
SortedNodes(ns) ==
    LET n == Len(ns)
        Before(j, i) == \/ NodeKeyLess(ns[j], ns[i])
                        \/ ~NodeKeyLess(ns[i], ns[j]) /\ j < i
        Rank(i) == Cardinality({j \in 1..n : Before(j, i)})
    IN  [k \in 1..n |-> ns[CHOOSE i \in 1..n : Rank(i) = k - 1]]

\* datetime.fromisoformat(s).date(): the calendar date written in the string.
parse_date(s) == [year |-> s.y, month |-> s.m, day |-> s.d]

NoLimit == -1
NoMonth == <<0, 0>>

\* nodes_sorted[-limit:] of a list s, for limit >= 0: the index -limit
\* is len - limit when 0 < limit <= len, and the start of the list when
\* limit = 0 (-0 is 0) or limit > len.
LastSlice(s, lim) ==
    IF lim = 0 \/ lim >= Len(s) THEN s
    ELSE SubSeq(s, Len(s) - lim + 1, Len(s))

\* Variant: the month test compares the month number only.
SumStep_month_only(acc, n, fm) ==
    IF fm # NoMonth /\ n.from.k = "none" THEN acc
    ELSE IF fm # NoMonth /\ parse_date(n.from).month # fm[2] THEN acc
    ELSE IF n.consumption.k = "bad" THEN acc
    ELSE
        LET kwh1 == acc.kwh + (IF n.consumption.k = "num" THEN n.consumption.v ELSE 0)
        IN  IF n.cost.k = "bad" THEN [acc EXCEPT !.kwh = kwh1]
            ELSE [kwh |-> kwh1,
                  cost |-> acc.cost + (IF n.cost.k = "num" THEN n.cost.v ELSE 0),
                  currency |-> IF acc.currency = "None" THEN n.currency ELSE acc.currency]

\* One pass of the loop body of sum_nodes over node n with the running
\* totals acc; an exception anywhere in the body leaves what was added
\* before it and goes on to the next node.
SumStep(acc, n, fm) ==
    IF fm # NoMonth /\ n.from.k = "none" THEN acc
    ELSE IF fm # NoMonth /\ <<parse_date(n.from).year, parse_date(n.from).month>> # fm THEN acc
    ELSE IF n.consumption.k = "bad" THEN acc
    ELSE
        LET kwh1 == acc.kwh + (IF n.consumption.k = "num" THEN n.consumption.v ELSE 0)
        IN  IF n.cost.k = "bad" THEN [acc EXCEPT !.kwh = kwh1]
            ELSE [kwh |-> kwh1,
                  cost |-> acc.cost + (IF n.cost.k = "num" THEN n.cost.v ELSE 0),
                  currency |-> IF acc.currency = "None" THEN n.currency ELSE acc.currency]

RECURSIVE SumLoop(_, _, _, _)
SumLoop(s, i, acc, fm) ==
    IF i > Len(s) THEN acc
    ELSE SumLoop(s, i + 1, SumStep(acc, s[i], fm), fm)

ZeroTotals == [kwh |-> 0, cost |-> 0, currency |-> "None"]

\* kwh is counted in units of 10^-4 kWh, cost in units of 10^-3 of the currency.
sum_nodes(ns, lim, fm) ==
    IF ns = <<>> THEN ZeroTotals
    ELSE
        LET sorted == SortedNodes(ns)
            nodes_sorted == IF lim # NoLimit THEN LastSlice(sorted, lim) ELSE sorted
            tot == SumLoop(nodes_sorted, 1, ZeroTotals, fm)
        IN  [kwh |-> round(tot.kwh), cost |-> round(tot.cost), currency |-> tot.currency]

\* ----------------------------------------------------- aggregate_consumption
\* float() of a non-numeric value is not caught: the call raises.
AggRaises(ns) ==
    \E i \in 1..Len(ns) : ns[i].consumption.k = "bad" \/ ns[i].cost.k = "bad"

aggregate_consumption(ns) ==
    LET kwh == SumOver(1..Len(ns),
                       [i \in 1..Len(ns) |->
                           IF ns[i].consumption.k = "num" THEN ns[i].consumption.v ELSE 0])
        cost == SumOver(1..Len(ns),
                        [i \in 1..Len(ns) |->
                            IF ns[i].cost.k = "num" THEN ns[i].cost.v ELSE 0])
    IN  <<round(kwh), round(cost)>>

CallSumNodes ==
    /\ sumState = "pending"
    /\ sumState' = "returned"
    /\ sumResult' = sum_nodes(nodes, limit, filter_month)
    /\ UNCHANGED <<nodes, limit, filter_month, aggState, aggResult, rowVars, runVars>>

CallAggregateConsumption ==
    /\ aggState = "pending"
    /\ IF AggRaises(nodes)
       THEN aggState' = "raised" /\ aggResult' = aggResult
       ELSE aggState' = "returned" /\ aggResult' = aggregate_consumption(nodes)
    /\ UNCHANGED <<nodes, limit, filter_month, sumState, sumResult, rowVars, runVars>>

Currencies == {"None", "SEK"}

\* Nodes for the unfiltered and last-N sums.
SumFroms == {NoFrom, From(2025, 12, 1), From(2025, 12, 2)}
SumNodes == [from : SumFroms, consumption : {None, Num(12346), Bad},
             cost : {None, Num(1004), Bad}, currency : Currencies]

\* Nodes for the calendar-month sums: the last day of a month, the first day
\* of the next one, and the same month a year later.
MonthFroms == {NoFrom, From(2025, 11, 30), From(2025, 12, 1), From(2026, 12, 1)}
MonthNodes == [from : MonthFroms, consumption : {None, Num(12346), Bad},
               cost : {None, Num(1004)}, currency : Currencies]
TargetMonths == {<<2025, 12>>, <<2025, 11>>}

InitSum ==
    /\ nodes \in SeqsUpTo(SumNodes, MaxNodes)
    /\ limit \in {NoLimit} \cup 0..MaxLimit
    /\ filter_month = NoMonth
    /\ sumState = "pending" /\ sumResult = ZeroTotals
    /\ aggState = "pending" /\ aggResult = <<0, 0>>
    /\ IdleRows /\ IdleRun

NextSum == CallSumNodes \/ CallAggregateConsumption

SpecSum == InitSum /\ [][NextSum]_vars

InitMonth ==
    /\ nodes \in SeqsUpTo(MonthNodes, MaxNodes)
    /\ limit = NoLimit
    /\ filter_month \in TargetMonths
    /\ sumState = "pending" /\ sumResult = ZeroTotals
    /\ aggState = "idle" /\ aggResult = <<0, 0>>
    /\ IdleRows /\ IdleRun

NextMonth == CallSumNodes

SpecMonth == InitMonth /\ [][NextMonth]_vars

\* ---------------------------------- claims: sum_nodes, aggregate_consumption
Malformed(n) == n.consumption.k = "bad" \/ n.cost.k = "bad"

RemoveAt(s, i) == SubSeq(s, 1, i - 1) \o SubSeq(s, i + 1, Len(s))

NumOrZero(x) == IF x.k = "num" THEN x.v ELSE 0

\* C4: a sample with a consumption or cost that is not coercible to a number
\* contributes nothing at all: the result is that of the same call without
\* the sample (stated for calls without a limit, where removing a sample does
\* not move the window).
C4_MalformedSkippedEntirely ==
    (sumState = "returned" /\ limit = NoLimit) =>
        \A i \in 1..Len(nodes) :
            Malformed(nodes[i]) =>
                sumResult = sum_nodes(RemoveAt(nodes, i), limit, filter_month)

\* C5: no aggregator call ends in an exception, whatever the values of the
\* samples are.
C5_AggregationNeverAborts == sumState # "raised" /\ aggState # "raised"

\* C6: with limit = N the result is the sum over the final min(N, len) samples
\* of the list sorted by "from", and over nothing else.
C6_OnlyLastN ==
    (sumState = "returned" /\ limit # NoLimit) =>
        LET s == SortedNodes(nodes)
            k == IF limit < Len(s) THEN limit ELSE Len(s)
            kept == SubSeq(s, Len(s) - k + 1, Len(s))
        IN  sumResult = sum_nodes(kept, NoLimit, NoMonth)

\* C7: with filter_month = (year, month) the result is the sum over exactly
\* the samples whose "from" is in that year and month, however many they are;
\* samples of other months, the adjacent ones included, add nothing.
InMonth(n, fm) == n.from.k = "ts" /\ n.from.y = fm[1] /\ n.from.m = fm[2]

SamplesOfMonth(ns, fm) == SelectSeq(ns, LAMBDA n : InMonth(n, fm))

C7_ExactlyTheMonth ==
    (sumState = "returned" /\ filter_month # NoMonth) =>
        LET inMonth == {i \in 1..Len(nodes) : InMonth(nodes[i], filter_month)}
        IN  /\ sumResult = sum_nodes(SamplesOfMonth(nodes, filter_month), NoLimit, NoMonth)
            /\ (\A i \in 1..Len(nodes) : ~Malformed(nodes[i])) =>
                  /\ sumResult.kwh =
                        round(SumOver(inMonth, [i \in 1..Len(nodes) |-> NumOrZero(nodes[i].consumption)]))
                  /\ sumResult.cost =
                        round(SumOver(inMonth, [i \in 1..Len(nodes) |-> NumOrZero(nodes[i].cost)]))

\* A December sample counted, the sample of 30 November next to it left out.
C7_Witness ==
    /\ sumState = "returned"
    /\ filter_month = <<2025, 12>>
    /\ Len(nodes) = 2
    /\ nodes[1].from = From(2025, 12, 1) /\ nodes[1].consumption = Num(12346)
    /\ nodes[2].from = From(2025, 11, 30) /\ nodes[2].consumption = Num(12346)
    /\ nodes[2].cost = Num(1004)
    /\ sumResult.kwh = 12350 /\ sumResult.cost = round(NumOrZero(nodes[1].cost))

\* ------------------------------------------------------------- script runs
Scripts == {"tibber_to_json", "tibber_stats", "tibber_data_debug"}

\* Values of an environment variable: unset or empty, blank, set.
EnvValues == {"", " ", "tok"}

\* str.strip()
strip(v) == IF v = " " THEN "" ELSE v

\* Whether the interpreter can compile the script.  tibber_to_json.py cannot
\* be compiled: the statement r = requests.post(...) in main is indented by
\* three columns inside a four-column block (IndentationError).
Compiles(sc) == sc # "tibber_to_json"

NoFiles == [today |-> "untouched", tomorrow |-> "untouched", stats |-> "untouched"]

Terminated == pc \in {"exit", "raised", "end"}

\* python3 <script>: the file is compiled before its first statement runs; a
\* SyntaxError ends the process with status 1.
Load ==
    /\ pc = "load"
    /\ IF Compiles(script)
       THEN pc' = "get_token" /\ exitCode' = exitCode
       ELSE pc' = "raised" /\ exitCode' = 1
    /\ UNCHANGED <<script, env, resp, netCalls, files, rowVars, sumVars>>

\* tibber_stats.py
stats_get_token ==
    /\ pc = "get_token" /\ script = "tibber_stats"
    /\ IF strip(env.TIBBER_TOKEN) = ""
       THEN pc' = "exit" /\ exitCode' = 2
       ELSE pc' = "resolve_home_id" /\ exitCode' = exitCode
    /\ UNCHANGED <<script, env, resp, netCalls, files, rowVars, sumVars>>

\* Answers to a GraphQL POST: the HTTP status, whether the body carries an
\* error list, whether the homes list is empty.
GqlAnswers == [status : {200, 401}, errors : BOOLEAN, homes : {"none", "some"}]

\* tibber_gql: one POST; sys.exit(1) on a status other than 200 or on errors.
GqlFails(r) == r.status # 200 \/ r.errors

stats_resolve_home_id ==
    /\ pc = "resolve_home_id" /\ script = "tibber_stats"
    /\ IF strip(env.TIBBER_HOME_ID) # ""
       THEN pc' = "query" /\ UNCHANGED <<resp, netCalls, exitCode>>
       ELSE \E r \in GqlAnswers :
               /\ resp' = r
               /\ netCalls' = netCalls + 1
               /\ IF GqlFails(r) THEN pc' = "exit" /\ exitCode' = 1
                  ELSE IF r.homes = "none" THEN pc' = "exit" /\ exitCode' = 3
                  ELSE pc' = "query" /\ exitCode' = exitCode
    /\ UNCHANGED <<script, env, files, rowVars, sumVars>>

stats_query ==
    /\ pc = "query" /\ script = "tibber_stats"
    /\ \E r \in GqlAnswers :
          /\ resp' = r
          /\ netCalls' = netCalls + 1
          /\ IF GqlFails(r) THEN pc' = "exit" /\ exitCode' = 1 /\ files' = files
             ELSE /\ pc' = "end" /\ exitCode' = 0
                  /\ files' = [files EXCEPT !.stats = "written"]
    /\ UNCHANGED <<script, env, rowVars, sumVars>>

\* tibber_data_debug.py
debug_get_token ==
    /\ pc = "get_token" /\ script = "tibber_data_debug"
    /\ LET t1 == strip(env.TIBBER_DATA_TOKEN)
           t == IF t1 = "" THEN strip(env.TIBBER_TOKEN) ELSE t1
       IN  IF t = ""
           THEN pc' = "exit" /\ exitCode' = 2
           ELSE pc' = "homes" /\ exitCode' = exitCode
    /\ UNCHANGED <<script, env, resp, netCalls, files, rowVars, sumVars>>

\* Answers to a Data API GET: the HTTP status and what the body holds.
ApiAnswers == [status : {200, 401}, body : {"empty", "no_history", "full"}]

debug_homes ==
    /\ pc = "homes" /\ script = "tibber_data_debug"
    /\ \E r \in ApiAnswers :
          /\ resp' = r
          /\ netCalls' = netCalls + 1
          /\ IF r.status # 200 THEN pc' = "exit" /\ exitCode' = 1
             ELSE IF r.body = "empty" THEN pc' = "exit" /\ exitCode' = 3
             ELSE pc' = "devices" /\ exitCode' = exitCode
    /\ UNCHANGED <<script, env, files, rowVars, sumVars>>

debug_devices ==
    /\ pc = "devices" /\ script = "tibber_data_debug"
    /\ \E r \in ApiAnswers :
          /\ resp' = r
          /\ netCalls' = netCalls + 1
          /\ IF r.status # 200 THEN pc' = "exit" /\ exitCode' = 1
             ELSE IF r.body = "empty" THEN pc' = "exit" /\ exitCode' = 4
             ELSE IF r.body = "no_history" THEN pc' = "exit" /\ exitCode' = 5
             ELSE pc' = "history" /\ exitCode' = exitCode
    /\ UNCHANGED <<script, env, files, rowVars, sumVars>>

debug_history ==
    /\ pc = "history" /\ script = "tibber_data_debug"
    /\ \E r \in ApiAnswers :
          /\ resp' = r
          /\ netCalls' = netCalls + 1
          /\ IF r.status # 200 THEN pc' = "exit" /\ exitCode' = 1
             ELSE pc' = "end" /\ exitCode' = 0
    /\ UNCHANGED <<script, env, files, rowVars, sumVars>>

InitRun ==
    /\ script \in Scripts
    /\ env \in [TIBBER_TOKEN : EnvValues, TIBBER_DATA_TOKEN : EnvValues,
                TIBBER_HOME_ID : {"", "home"}]
    /\ resp = [status |-> 0]
    /\ pc = "load" /\ exitCode = -1 /\ netCalls = 0 /\ files = NoFiles
    /\ IdleRows /\ IdleSum

NextRun ==
    \/ Load
    \/ stats_get_token \/ stats_resolve_home_id \/ stats_query
    \/ debug_get_token \/ debug_homes \/ debug_devices \/ debug_history

SpecRun == InitRun /\ [][NextRun]_vars

\* The credential variables a script reads are all unset, empty or blank.
CredentialMissing ==
    /\ strip(env.TIBBER_TOKEN) = ""
    /\ script = "tibber_data_debug" => strip(env.TIBBER_DATA_TOKEN) = ""

\* C9: a run of any of the three scripts without credential ends with exit
\* status 2, the status of no other error, and issues no network request.
C9_MissingCredentialExits2 ==
    (Terminated /\ CredentialMissing) => (exitCode = 2 /\ netCalls = 0)

\* --------------------------------------------- tibber_to_json.py: body of main
\* The statements of main as they are written, from its first one.

\* What the API may send as price lists and consumption nodes: well-formed
\* entries, and entries whose number is null or not numeric.
GoodPrice(loc) == [startsAt |-> [loc |-> loc, suf |-> "Z"], total |-> Num(1234564)]
BadPrice == [startsAt |-> [loc |-> 0, suf |-> "Z"], total |-> None]
PriceLists == {<<>>, <<GoodPrice(0)>>, <<GoodPrice(1), GoodPrice(0)>>, <<GoodPrice(0), BadPrice>>}

GoodNode == [from |-> From(2025, 12, 1), consumption |-> Num(12346),
             cost |-> Num(1004), currency |-> "SEK"]
GapNode == [from |-> From(2025, 12, 2), consumption |-> None, cost |-> None,
            currency |-> "None"]
BadNode == [from |-> From(2025, 12, 2), consumption |-> Bad, cost |-> Num(1004),
            currency |-> "SEK"]
NodeLists == {<<>>, <<GoodNode, GapNode>>, <<GoodNode, BadNode>>}

\* The answer to the POST: no answer at all (requests raises), or a status
\* and a body: not JSON, JSON of another shape, or the expected shape.
MainAnswers ==
    [transport : {"ok"}, status : {200}, body : {"shaped"},
     today : PriceLists, tomorrow : PriceLists,
     day_nodes : NodeLists, week_nodes : NodeLists]
    \cup [transport : {"ok", "down"}, status : {200, 401}, body : {"not_json", "misshaped"},
          today : {<<>>}, tomorrow : {<<>>}, day_nodes : {<<>>}, week_nodes : {<<>>}]

main_token ==
    /\ pc = "main"
    /\ IF strip(env.TIBBER_TOKEN) = ""
       THEN pc' = "exit" /\ exitCode' = 2
       ELSE pc' = "post" /\ exitCode' = exitCode
    /\ UNCHANGED <<script, env, resp, netCalls, files, rowVars, sumVars>>

\* requests.post, the status check and r.json().
main_post ==
    /\ pc = "post"
    /\ \E r \in MainAnswers :
          /\ resp' = r
          /\ netCalls' = netCalls + 1
          /\ IF r.transport = "down" THEN pc' = "raised" /\ exitCode' = 1
             ELSE IF r.status # 200 THEN pc' = "exit" /\ exitCode' = 1
             ELSE IF r.body = "not_json" THEN pc' = "raised" /\ exitCode' = 1
             ELSE pc' = "parse" /\ exitCode' = exitCode
    /\ UNCHANGED <<script, env, files, rowVars, sumVars>>

\* Variant: the statistics are written first and the price files afterwards.
main_parse_stats_first ==
    /\ pc = "parse"
    /\ IF resp.body # "shaped"
       THEN pc' = "exit" /\ exitCode' = 3
       ELSE pc' = "aggregate" /\ exitCode' = exitCode
    /\ UNCHANGED <<script, env, resp, netCalls, files, rowVars, sumVars>>

\* The try block that picks the lists out of the answer.
main_parse ==
    /\ pc = "parse"
    /\ IF resp.body # "shaped"
       THEN pc' = "exit" /\ exitCode' = 3
       ELSE pc' = "open_today" /\ exitCode' = exitCode
    /\ UNCHANGED <<script, env, resp, netCalls, files, rowVars, sumVars>>

\* os.makedirs and open("data/today.json", "w"): the file is created or
\* truncated before build_price_rows is called.
main_open_today ==
    /\ pc = "open_today"
    /\ files' = [files EXCEPT !.today = "opened"]
    /\ pc' = "dump_today"
    /\ UNCHANGED <<script, env, resp, netCalls, exitCode, rowVars, sumVars>>

\* json.dump(build_price_rows(today_prices), f) inside the with block.
main_dump_today ==
    /\ pc = "dump_today"
    /\ IF PriceRaises(resp.today)
       THEN pc' = "raised" /\ exitCode' = 1 /\ files' = files
       ELSE /\ pc' = "tomorrow" /\ exitCode' = exitCode
            /\ files' = [files EXCEPT !.today = "written"]
    /\ UNCHANGED <<script, env, resp, netCalls, rowVars, sumVars>>

\* rows_tomorrow and, when it is not empty, data/tomorrow.json.
main_tomorrow ==
    /\ pc = "tomorrow"
    /\ IF PriceRaises(resp.tomorrow)
       THEN pc' = "raised" /\ exitCode' = 1 /\ files' = files
       ELSE /\ pc' = "aggregate" /\ exitCode' = exitCode
            /\ files' = IF build_price_rows(resp.tomorrow) # <<>>
                        THEN [files EXCEPT !.tomorrow = "written"]
                        ELSE files
    /\ UNCHANGED <<script, env, resp, netCalls, rowVars, sumVars>>

\* The two aggregate_consumption calls, then data/stats.json and the summary.
main_stats ==
    /\ pc = "aggregate"
    /\ IF AggRaises(resp.day_nodes) \/ AggRaises(resp.week_nodes)
       THEN pc' = "raised" /\ exitCode' = 1 /\ files' = files
       ELSE /\ pc' = "end" /\ exitCode' = 0
            /\ files' = [files EXCEPT !.stats = "written"]
    /\ UNCHANGED <<script, env, resp, netCalls, rowVars, sumVars>>

InitMain ==
    /\ script = "tibber_to_json"
    /\ env \in [TIBBER_TOKEN : EnvValues, TIBBER_DATA_TOKEN : {""},
                TIBBER_HOME_ID : {"", "home"}]
    /\ resp = [status |-> 0]
    /\ pc = "main" /\ exitCode = -1 /\ netCalls = 0 /\ files = NoFiles
    /\ IdleRows /\ IdleSum

NextMain ==
    \/ main_token \/ main_post \/ main_parse \/ main_open_today
    \/ main_dump_today \/ main_tomorrow \/ main_stats

SpecMain == InitMain /\ [][NextMain]_vars

====
